---- MODULE Spec2Model ----
(***************************************************************************)
(* Billing routes of the portfolio-management server:                      *)
(*   POST /api/create-subscription  (routes.ts 113-194)                    *)
(*   POST /api/stripe-webhook       (routes.ts 197-220)                    *)
(* over the users table of DatabaseStorage and the payment processor.      *)
(* Every await of a handler is an interleaving point: the handler's        *)
(* synchronous code up to the next await is one atomic step.               *)
(***************************************************************************)
EXTENDS Integers, Sequences, FiniteSets, TLC

(* ---------------- bounds of the model ---------------- *)
MaxReqs == 2
MaxDeliveries == 2

Reqs == 1..MaxReqs

(* ---------------- identifiers ---------------- *)
UserIds == {"u1"}
PlanTable == {"starter", "professional"}
RequestPlanIds == PlanTable \cup {"", "bogus"}
Emails == {"", "a@x"}

NoUser == [exists |-> FALSE, email |-> "", stripeCustomerId |-> 0,
           stripeSubscriptionId |-> 0, currentPlan |-> ""]

(* ---------------- webhook events ---------------- *)
HandledTypes == {"payment_intent.succeeded", "customer.subscription.updated"}

EventCatalog ==
  [e \in 1..5 |->
     CASE e = 1 -> [id |-> 1, type |-> "customer.subscription.updated",
                    sub |-> 1, created |-> 1, status |-> "active"]
       [] e = 2 -> [id |-> 2, type |-> "customer.subscription.updated",
                    sub |-> 1, created |-> 2, status |-> "past_due"]
       [] e = 3 -> [id |-> 3, type |-> "customer.subscription.deleted",
                    sub |-> 1, created |-> 3, status |-> "canceled"]
       [] e = 4 -> [id |-> 4, type |-> "payment_intent.succeeded",
                    sub |-> 1, created |-> 1, status |-> "active"]
       [] OTHER -> [id |-> 5, type |-> "invoice.paid",
                    sub |-> 1, created |-> 2, status |-> "active"]]

EventIds == DOMAIN EventCatalog

VARIABLES users, procCustomers, procSubs, req,
          subStatus, processedLog, delivered, lastWebhook

vars == <<users, procCustomers, procSubs, req,
          subStatus, processedLog, delivered, lastWebhook>>

dbVars == <<users, subStatus, processedLog>>
procVars == <<procCustomers, procSubs>>
hookVars == <<delivered, lastWebhook>>

IdleReq == [pc |-> "idle", userId |-> "", planId |-> "", user |-> NoUser,
            plan |-> FALSE, customer |-> 0, subscription |-> 0,
            hasPI |-> FALSE, status |-> 0, subscriptionId |-> 0,
            clientSecret |-> "", procFailed |-> FALSE, writes |-> 0]

NoWebhook == [event |-> 0, sigValid |-> TRUE, status |-> 0, received |-> FALSE]

Init ==
  /\ users = [u \in UserIds |-> NoUser]
  /\ procCustomers = << >>
  /\ procSubs = << >>
  /\ req = [r \in Reqs |-> IdleReq]
  /\ subStatus = [s \in 1..MaxReqs |-> "incomplete"]
  /\ processedLog = << >>
  /\ delivered = [e \in EventIds |-> 0]
  /\ lastWebhook = NoWebhook

(* ---------------- storage ---------------- *)
\* upsertUser: insert the row, or on conflict update the given columns.
UpsertUser(u, email) ==
  /\ users' = [users EXCEPT ![u] =
                 IF users[u].exists
                   THEN [users[u] EXCEPT !.email = email]
                   ELSE [NoUser EXCEPT !.exists = TRUE, !.email = email]]
  /\ users'[u] # users[u]
  /\ UNCHANGED <<procVars, req, subStatus, processedLog, hookVars>>

\* The row written by updateUserStripeInfo.
StripeInfoRow(row, customerId, subscriptionId) ==
  IF row.exists
    THEN [row EXCEPT !.stripeCustomerId = customerId,
                     !.stripeSubscriptionId = subscriptionId]
    ELSE row

\* The row written by updateUser(id, {currentPlan}).
CurrentPlanRow(row, planId) ==
  IF row.exists THEN [row EXCEPT !.currentPlan = planId] ELSE row

(* ---------------- POST /api/create-subscription ---------------- *)
Respond(r, status, subscriptionId, clientSecret) ==
  [r EXCEPT !.pc = "done", !.status = status,
            !.subscriptionId = subscriptionId, !.clientSecret = clientSecret]

\* catch (error): 500
Fail(r) == [Respond(r, 500, 0, "") EXCEPT !.procFailed = TRUE]

CreateSubscriptionBegin(r, u, p) ==
  /\ req[r].pc = "idle"
  /\ r > 1 => req[r - 1].pc # "idle"
  /\ req' = [req EXCEPT ![r] =
               IF p = ""
                 THEN Respond([@ EXCEPT !.userId = u, !.planId = p], 400, 0, "")
                 ELSE [@ EXCEPT !.pc = "getUser", !.userId = u, !.planId = p]]
  /\ UNCHANGED <<dbVars, procVars, hookVars>>

GetUser(r) ==
  /\ req[r].pc = "getUser"
  /\ req' = [req EXCEPT ![r] = [@ EXCEPT !.pc = "getPlan",
                                         !.user = users[req[r].userId]]]
  /\ UNCHANGED <<dbVars, procVars, hookVars>>

\* Checks without the existing-subscription branch.
ChecksIgnoringExisting(user, plan) ==
  IF ~user.exists THEN "404"
  ELSE IF ~plan THEN "404"
  ELSE IF user.email = "" THEN "400"
  ELSE "customersCreate"

\* Checks without the email test.
ChecksIgnoringEmail(user, plan) ==
  IF ~user.exists THEN "404"
  ELSE IF ~plan THEN "404"
  ELSE IF user.stripeSubscriptionId # 0 THEN "retrieveSub"
  ELSE "customersCreate"

\* The checks between the two reads and the first processor call.
Checks(user, plan) ==
  IF ~user.exists THEN "404"
  ELSE IF ~plan THEN "404"
  ELSE IF user.stripeSubscriptionId # 0 THEN "retrieveSub"
  ELSE IF user.email = "" THEN "400"
  ELSE "customersCreate"

GetPlan(r) ==
  /\ req[r].pc = "getPlan"
  /\ LET plan == req[r].planId \in PlanTable
         c == Checks(req[r].user, plan)
         q == [req[r] EXCEPT !.plan = plan]
     IN req' = [req EXCEPT ![r] =
                  CASE c = "404" -> Respond(q, 404, 0, "")
                    [] c = "400" -> Respond(q, 400, 0, "")
                    [] OTHER -> [q EXCEPT !.pc = c]]
  /\ UNCHANGED <<dbVars, procVars, hookVars>>

\* stripe.subscriptions.retrieve(id): the processor's object of that id.
SubscriptionsRetrieveResult(id) == procSubs[id]

\* payment_intent.client_secret of a subscription's latest invoice.
ClientSecret(sub) == IF sub.hasPI THEN "pi_secret" ELSE ""

SubscriptionsRetrieve(r) ==
  /\ req[r].pc = "retrieveSub"
  /\ \/ req' = [req EXCEPT ![r] =
                  [@ EXCEPT !.pc = "retrieveInvoice",
                            !.subscription =
                               SubscriptionsRetrieveResult(
                                  req[r].user.stripeSubscriptionId).id]]
     \/ req' = [req EXCEPT ![r] = Fail(@)]
  /\ UNCHANGED <<dbVars, procVars, hookVars>>

InvoicesRetrieve(r) ==
  /\ req[r].pc = "retrieveInvoice"
  /\ \/ req' = [req EXCEPT ![r] =
                  Respond(@, 200, req[r].subscription,
                          ClientSecret(procSubs[req[r].subscription]))]
     \/ req' = [req EXCEPT ![r] = Fail(@)]
  /\ UNCHANGED <<dbVars, procVars, hookVars>>

\* customers.create that stores the customer link at once.
CustomersCreateLinking(r) ==
  /\ req[r].pc = "customersCreate"
  /\ \/ LET id == Len(procCustomers) + 1
        IN /\ procCustomers' =
                Append(procCustomers, [id |-> id, userId |-> req[r].userId])
           /\ users' = [users EXCEPT ![req[r].userId] =
                          StripeInfoRow(@, id, 0)]
           /\ req' = [req EXCEPT ![r] =
                        [@ EXCEPT !.pc = "subscriptionsCreate",
                                  !.customer = id, !.writes = @ + 1]]
     \/ /\ req' = [req EXCEPT ![r] = Fail(@)]
        /\ UNCHANGED <<procCustomers, users>>
  /\ UNCHANGED <<subStatus, processedLog, procSubs, hookVars>>

CustomersCreate(r) ==
  /\ req[r].pc = "customersCreate"
  /\ \/ LET id == Len(procCustomers) + 1
        IN /\ procCustomers' =
                Append(procCustomers, [id |-> id, userId |-> req[r].userId])
           /\ req' = [req EXCEPT ![r] =
                        [@ EXCEPT !.pc = "subscriptionsCreate",
                                  !.customer = id]]
     \/ /\ req' = [req EXCEPT ![r] = Fail(@)]
        /\ UNCHANGED procCustomers
  /\ UNCHANGED <<dbVars, procSubs, hookVars>>

SubscriptionsCreate(r) ==
  /\ req[r].pc = "subscriptionsCreate"
  /\ \/ \E pi \in BOOLEAN :
          LET id == Len(procSubs) + 1
          IN /\ procSubs' =
                  Append(procSubs, [id |-> id, customer |-> req[r].customer,
                                    hasPI |-> pi])
             /\ req' = [req EXCEPT ![r] =
                          [@ EXCEPT !.pc = "updateUserStripeInfo",
                                    !.subscription = id, !.hasPI = pi]]
     \/ /\ req' = [req EXCEPT ![r] = Fail(@)]
        /\ UNCHANGED procSubs
  /\ UNCHANGED <<dbVars, procCustomers, hookVars>>

UpdateUserStripeInfo(r) ==
  /\ req[r].pc = "updateUserStripeInfo"
  /\ users' = [users EXCEPT ![req[r].userId] =
                 StripeInfoRow(@, req[r].customer, req[r].subscription)]
  /\ req' = [req EXCEPT ![r] =
               [@ EXCEPT !.pc = "updateUser", !.writes = @ + 1]]
  /\ UNCHANGED <<subStatus, processedLog, procVars, hookVars>>

\* updateUser(currentPlan), then the response built from
\* subscription.latest_invoice.payment_intent (a TypeError when it is null).
UpdateUser(r) ==
  /\ req[r].pc = "updateUser"
  /\ users' = [users EXCEPT ![req[r].userId] =
                 CurrentPlanRow(@, req[r].planId)]
  /\ req' = [req EXCEPT ![r] =
               IF req[r].hasPI
                 THEN Respond([@ EXCEPT !.writes = @ + 1], 200,
                              req[r].subscription, "pi_secret")
                 ELSE Respond([@ EXCEPT !.writes = @ + 1], 500, 0, "")]
  /\ UNCHANGED <<subStatus, processedLog, procVars, hookVars>>

\* The handler has returned: its locals are gone and the next request of the
\* same client can come in.
Return(r) ==
  /\ req[r].pc = "done"
  /\ req' = [req EXCEPT ![r] = IdleReq]
  /\ UNCHANGED <<dbVars, procVars, hookVars>>

(* ---------------- POST /api/stripe-webhook ---------------- *)
Received == [status |-> 200, received |-> TRUE]

\* A switch whose default branch answers 400.
WebhookResponseRejectingUnknown(type) ==
  CASE type = "payment_intent.succeeded" -> Received
    [] type = "customer.subscription.updated" -> Received
    [] OTHER -> [status |-> 400, received |-> FALSE]

\* switch (event.type) followed by res.json({ received: true })
WebhookResponse(type) ==
  CASE type = "payment_intent.succeeded" -> Received
    [] type = "customer.subscription.updated" -> Received
    [] OTHER -> Received

\* What the switch writes to the subscription records: no branch writes.
WebhookStatus(status, event) ==
  CASE event.type = "payment_intent.succeeded" -> status
    [] event.type = "customer.subscription.updated" -> status
    [] OTHER -> status

\* What the handler appends to the processed-event log: nothing.
WebhookLog(log, event) == log

TotalDelivered == delivered[1] + delivered[2] + delivered[3]
                    + delivered[4] + delivered[5]

StripeWebhook(e, sigValid) ==
  /\ sigValid => TotalDelivered < MaxDeliveries
  /\ LET event == EventCatalog[e]
         resp == WebhookResponse(event.type)
     IN /\ subStatus' = WebhookStatus(subStatus, event)
        /\ processedLog' = WebhookLog(processedLog, event)
        /\ lastWebhook' = [event |-> e, sigValid |-> sigValid,
                           status |-> resp.status, received |-> resp.received]
  /\ delivered' = IF sigValid THEN [delivered EXCEPT ![e] = @ + 1]
                              ELSE delivered
  /\ UNCHANGED <<users, procVars, req>>

(* ---------------- specifications ---------------- *)
CreateSubscription(r) ==
  \/ \E u \in UserIds, p \in RequestPlanIds : CreateSubscriptionBegin(r, u, p)
  \/ GetUser(r)
  \/ GetPlan(r)
  \/ SubscriptionsRetrieve(r)
  \/ InvoicesRetrieve(r)
  \/ CustomersCreate(r)
  \/ SubscriptionsCreate(r)
  \/ UpdateUserStripeInfo(r)
  \/ UpdateUser(r)

Upsert == \E u \in UserIds, m \in Emails : UpsertUser(u, m)

Webhook == \E e \in EventIds, v \in BOOLEAN : StripeWebhook(e, v)

\* The whole server: concurrent subscription requests and webhook traffic.
Next ==
  \/ Upsert
  \/ \E r \in Reqs : CreateSubscription(r)
  \/ Webhook

Spec == Init /\ [][Next]_vars

\* Subscription requests only (no webhook traffic).
NextCreate ==
  \/ Upsert
  \/ \E r \in Reqs : CreateSubscription(r)

SpecCreate == Init /\ [][NextCreate]_vars

\* Webhook traffic next to one client that sends its subscription requests
\* one after the other.
NextWebhook ==
  \/ Upsert
  \/ CreateSubscription(1) /\ Len(procCustomers') <= MaxReqs
  \/ Return(1)
  \/ Webhook

SpecWebhook == Init /\ [][NextWebhook]_vars

(* ================= properties ================= *)
Done(r) == req[r].pc = "done"

\* The request got past the planId check and read the user and the plan.
Looked(r) == Done(r) /\ req[r].planId # ""

\* The user row read by the request had a stored subscription.
HadSubscription(r) ==
  /\ req[r].user.exists
  /\ req[r].user.stripeSubscriptionId # 0

\* Some user row links to subscription s.
Resolved(s) ==
  \E u \in UserIds : users[u].exists /\ users[u].stripeSubscriptionId = s

WebhookStep == <<delivered, lastWebhook>>' # <<delivered, lastWebhook>>

SpecHandledTypes == HandledTypes \cup {"customer.subscription.deleted"}

TimesApplied(e) ==
  Cardinality({i \in DOMAIN processedLog : processedLog[i] = e})

\* C1: a webhook delivery whose signature does not verify is rejected with
\* status 400 (not {received: true}), changes no persisted state and adds
\* nothing to the processed-event log.
C1_SignatureEnforced ==
  [][(WebhookStep /\ ~lastWebhook'.sigValid)
       => /\ lastWebhook'.status = 400
          /\ ~lastWebhook'.received
          /\ UNCHANGED <<users, subStatus, processedLog>>]_vars

\* C2: an event identifier delivered two or more times has had its effect
\* applied exactly once.
C2_AppliedExactlyOnce ==
  \A e \in EventIds :
    (/\ delivered[e] >= 2
     /\ EventCatalog[e].type \in SpecHandledTypes
     /\ Resolved(EventCatalog[e].sub))
      => TimesApplied(e) = 1

\* C3: of two customer.subscription.updated events for one subscription with
\* timestamps t1 < t2, delivered in either order, the persisted status is the
\* one carried by the t2 event.
C3_LaterUpdateWins ==
  \A a, b \in EventIds :
    (/\ EventCatalog[a].type = "customer.subscription.updated"
     /\ EventCatalog[b].type = "customer.subscription.updated"
     /\ EventCatalog[a].sub = EventCatalog[b].sub
     /\ EventCatalog[a].created < EventCatalog[b].created
     /\ delivered[a] >= 1 /\ delivered[b] >= 1
     /\ delivered[a] + delivered[b] = TotalDelivered
     /\ Resolved(EventCatalog[b].sub))
      => subStatus[EventCatalog[b].sub] = EventCatalog[b].status

\* C4: once a customer.subscription.deleted event has been taken in, the
\* persisted status of its subscription is canceled in every later state.
C4_CanceledIsFinal ==
  \A e \in EventIds :
    (/\ EventCatalog[e].type = "customer.subscription.deleted"
     /\ delivered[e] >= 1
     /\ Resolved(EventCatalog[e].sub))
      => subStatus[EventCatalog[e].sub] = "canceled"

\* The State Reconciler's rule for one event (spec 4.3).
ReconcilerApply(rec, ev) ==
  IF rec.status = "canceled" THEN rec
  ELSE IF ev.type = "customer.subscription.deleted"
    THEN [status |-> "canceled", marker |-> ev.created]
  ELSE IF ev.type = "customer.subscription.updated" /\ ev.created > rec.marker
    THEN [status |-> ev.status, marker |-> ev.created]
  ELSE rec

PendingRecord == [status |-> "incomplete", marker |-> 0]

\* C7: after two deliveries for the same subscription the persisted state is
\* the one obtained by applying the two events one after the other in
\* timestamp order.
C7_EqualsSequentialOrder ==
  \A a, b \in EventIds :
    (/\ a # b
     /\ EventCatalog[a].sub = EventCatalog[b].sub
     /\ EventCatalog[a].created < EventCatalog[b].created
     /\ delivered[a] = 1 /\ delivered[b] = 1
     /\ TotalDelivered = 2
     /\ Resolved(EventCatalog[a].sub))
      => subStatus[EventCatalog[a].sub] =
           ReconcilerApply(ReconcilerApply(PendingRecord, EventCatalog[a]),
                           EventCatalog[b]).status

\* C9: a delivered event of a type the handler has no case for is answered
\* 200 {received: true} and leaves all persisted state unchanged.
C9_UnknownTypeNoOp ==
  [][(WebhookStep /\ EventCatalog[lastWebhook'.event].type \notin HandledTypes)
       => /\ lastWebhook'.status = 200
          /\ lastWebhook'.received
          /\ UNCHANGED <<users, subStatus, processedLog>>]_vars

C9_Witness ==
  /\ lastWebhook.event = 5
  /\ lastWebhook.status = 200
  /\ delivered[5] >= 1
  /\ Resolved(1)

(* ---------------- POST /api/create-subscription ---------------- *)
StripeFields(row) ==
  <<row.stripeCustomerId, row.stripeSubscriptionId, row.currentPlan>>

\* C5 as stated: every call for a user with a stored subscription and an
\* existing plan returns that subscriptionId, creates nothing and writes
\* nothing.
C5_AlwaysReturnsStored ==
  \A r \in Reqs :
    (Looked(r) /\ HadSubscription(r) /\ req[r].plan)
      => /\ req[r].status = 200
         /\ req[r].subscriptionId = req[r].user.stripeSubscriptionId
         /\ req[r].customer = 0
         /\ req[r].writes = 0

C5_ExistingBranch ==
  \A r \in Reqs :
    (/\ HadSubscription(r) /\ req[r].plan
     /\ req[r].pc \in {"retrieveSub", "retrieveInvoice", "done"})
      => /\ req[r].customer = 0
         /\ req[r].writes = 0
         /\ Done(r) =>
              \/ /\ req[r].status = 200
                 /\ req[r].subscriptionId = req[r].user.stripeSubscriptionId
              \/ req[r].status = 500 /\ req[r].procFailed

C5_ExistingFrame ==
  \A r \in Reqs :
    (req[r].pc \in {"retrieveSub", "retrieveInvoice"} /\ req'[r] # req[r])
      => UNCHANGED <<users, procCustomers, procSubs>>

\* C5 (amended): a call for a user with a stored subscription and an existing
\* plan creates no processor customer or subscription and leaves the stored
\* stripeCustomerId, stripeSubscriptionId and currentPlan unchanged; it
\* returns the stored subscriptionId unless a processor retrieve call fails,
\* in which case it responds 500.
C5_IdempotentRetrieval == []C5_ExistingBranch /\ [][C5_ExistingFrame]_vars

C5_Witness ==
  \E r \in Reqs :
    /\ Done(r) /\ HadSubscription(r) /\ req[r].plan
    /\ req[r].status = 200
    /\ req[r].subscriptionId = req[r].user.stripeSubscriptionId
    /\ Len(procSubs) = 1

CustomersOf(u) == {i \in DOMAIN procCustomers : procCustomers[i].userId = u}

SubscriptionsOf(u) ==
  {i \in DOMAIN procSubs : procSubs[i].customer \in CustomersOf(u)}

\* C6: across every interleaving of requests for one user at most one
\* processor customer and one processor subscription are created, and the
\* stored stripeCustomerId / stripeSubscriptionId never change once set.
C6_LinkCreatedOnce ==
  /\ [](\A u \in UserIds : /\ Cardinality(CustomersOf(u)) <= 1
                           /\ Cardinality(SubscriptionsOf(u)) <= 1)
  /\ [][\A u \in UserIds :
          /\ users[u].stripeCustomerId # 0
               => users'[u].stripeCustomerId = users[u].stripeCustomerId
          /\ users[u].stripeSubscriptionId # 0
               => users'[u].stripeSubscriptionId
                    = users[u].stripeSubscriptionId]_vars

C10_WriteOrder ==
  \A r \in Reqs :
    /\ req[r].procFailed
         => Done(r) /\ req[r].status = 500 /\ req[r].writes = 0
    /\ req[r].writes > 0
         => /\ req[r].customer \in DOMAIN procCustomers
            /\ req[r].subscription \in DOMAIN procSubs
            /\ procSubs[req[r].subscription].customer = req[r].customer
    /\ req[r].writes = 1 <=> req[r].pc = "updateUser"
    /\ (req[r].status = 200 /\ req[r].customer # 0) => req[r].writes = 2
    /\ (req[r].writes > 0 /\ ~Done(r)) => req[r].status = 0

C10_WriteSteps ==
  /\ \A r \in Reqs :
       (req'[r].procFailed /\ ~req[r].procFailed) => UNCHANGED users
  /\ \A u \in UserIds :
       /\ (<<users[u].stripeCustomerId, users[u].stripeSubscriptionId>>
             # <<users'[u].stripeCustomerId, users'[u].stripeSubscriptionId>>)
            => \E r \in Reqs : /\ req[r].pc = "updateUserStripeInfo"
                               /\ req'[r].pc = "updateUser"
       /\ (users[u].currentPlan # users'[u].currentPlan)
            => \E r \in Reqs : /\ req[r].pc = "updateUser"
                               /\ req[r].writes = 1
                               /\ req'[r].pc = "done"

\* C10: a request in which a processor call fails answers 500 and writes
\* nothing to the user's row; updateUserStripeInfo and then updateUser run
\* only after both processor objects were created and before the success
\* response.
C10_FailureLeavesRow == []C10_WriteOrder /\ [][C10_WriteSteps]_vars

C10_Witness ==
  \E r \in Reqs :
    /\ Done(r) /\ req[r].procFailed
    /\ req[r].customer # 0
    /\ StripeFields(users[req[r].userId]) = StripeFields(NoUser)

====
